---- MODULE Spec2Model ----
(***************************************************************************)
(* Session core of the transcribe-auth service: the users and sessions     *)
(* tables, the functions of app/auth.py over them, and the HTTP handlers   *)
(* of app/main.py (duplicated in app/routers/) that call them.             *)
(*                                                                         *)
(* Every function and handler is an operator from the tables and the      *)
(* request to the tables afterwards and the response; the actions apply    *)
(* them.                                                                   *)
(*                                                                         *)
(* Spec     : every handler runs as one atomic request.                    *)
(* SpecOwn  : register, login and delete_user; login and register also     *)
(*            run as two steps (the commit of the user, then               *)
(*            create_session), so that a delete_user comes between.        *)
(* SpecConc : logins and validate_session calls only; validate_session     *)
(*            also runs as two database steps (SELECT, then clock read     *)
(*            and UPDATE or user SELECT), so that calls interleave.        *)
(* SpecReg  : logins, and register and create_user as their statements     *)
(*            (the two duplicate checks, the INSERT, create_session), so   *)
(*            that two registrations interleave.                           *)
(* SpecAdmin: logins, create_user, and update_user and delete_user as two  *)
(*            steps (the get_admin_user gate, then the rest), so that two  *)
(*            admin requests interleave.                                   *)
(* SpecUpload: logins and uploads to the bucket, as the clock advances.    *)
(* SpecKeys : logins, registrations under usernames with and without the   *)
(*            key separator, and uploads.                                  *)
(***************************************************************************)
EXTENDS Integers, FiniteSets, Sequences, TLC

\* ---------------------------------------------------------------- bounds
MaxUsers    == 2      \* rows the users table may ever hold (serial ids 1..MaxUsers)
MaxSessions == 3      \* rows ever inserted into the sessions table (serial ids)
MaxTicks    == 2      \* the clock is read at 0, 1, .. MaxTicks session lifetimes
MaxUploads  == 1      \* objects the bucket may hold

\* ------------------------------------------------------ program constants
SESSION_EXPIRY_DAYS == 7
MIN_SIZE == 1024
MAX_SIZE == 50 * 1024 * 1024
BCRYPT_MAX_BYTES == 72

None == "None"        \* Python None where a token is expected; a missing cookie
NoId == 0             \* Python None where a row id is expected: no such row

\* Optional[T]: {} is None, {x} is the value x
Opt(S) == {{}} \cup {{x} : x \in S}

Usernames == {"admin", "alice"}
Emails    == {"admin@x.com", "alice@x.com"}
Passwords == {"pw123456", "wrong"}
FullNames == {"Alice"}
Salts     == {"s1"}
Tokens    == {"tokA", "tokB"}     \* values generate_session_token can return
Procs     == {"p1", "p2"}         \* concurrent validate_session calls (SpecConc)
\* The instants at which the clock is read, one session lifetime apart: a session
\* created at one of them is unexpired there, expires exactly at the next
\* (expires_at = now) and is past its expiry at the one after.
Times     == {k * SESSION_EXPIRY_DAYS : k \in 0..MaxTicks}

VARIABLES
    users,          \* users table: id -> row
    sessions,       \* sessions table: id -> row
    nextUserId,     \* users.id serial
    nextSessionId,  \* sessions.id serial
    now,            \* datetime.utcnow(), in days
    revoked,        \* ids of the sessions invalidated by logout or revoke_session
    issued,         \* session id -> token, of every session ever inserted
    s3,             \* the bucket: object key -> object
    vs              \* per process: position inside a running validate_session

vars == <<users, sessions, nextUserId, nextSessionId, now, revoked, issued, s3, vs>>

\* ------------------------------------------------------ CredentialVault
\* bcrypt: a salted one-way digest; the salt is stored inside the hash. bcrypt
\* reads no more than the first BCRYPT_MAX_BYTES bytes of the password, and
\* CryptContext(schemes=["bcrypt"]) leaves passlib's truncate_error off.
Truncate(password) ==
    IF Len(password) > BCRYPT_MAX_BYTES THEN SubSeq(password, 1, BCRYPT_MAX_BYTES) ELSE password

Digest(salt, password) == <<salt, Truncate(password)>>

hash_password(password, salt) == [salt |-> salt, digest |-> Digest(salt, password)]

verify_password(plain_password, hashed_password) ==
    Digest(hashed_password.salt, plain_password) = hashed_password.digest

\* ------------------------------------------------------------ the tables
User(username, email, password_hash, full_name, is_active, is_admin) ==
    [username |-> username, email |-> email, password_hash |-> password_hash,
     full_name |-> full_name, is_active |-> is_active, is_admin |-> is_admin,
     last_login_at |-> {}]

SessionModel(user_id, session_token, expires_at, created_at) ==
    [user_id |-> user_id, session_token |-> session_token,
     expires_at |-> expires_at, created_at |-> created_at, is_valid |-> TRUE]

\* db.add(row); db.commit() on a table keyed by a serial id
Insert(table, id, row) == [i \in DOMAIN table \cup {id} |-> IF i = id THEN row ELSE table[i]]

\* db.delete(user); db.commit(): the row goes
DeleteRow(table, id) == [i \in DOMAIN table \ {id} |-> table[i]]

\* mutant: the user row goes and its sessions stay (no cascade)
CascadeSessions_keep(S, user_id) == S

\* relationship(cascade="all, delete-orphan") / ForeignKey(ondelete='CASCADE')
CascadeSessions(S, user_id) ==
    [s \in {i \in DOMAIN S : S[i].user_id # user_id} |-> S[s]]

\* db.query(User).filter(User.username == username).first()
UserByUsername(U, username) == {u \in DOMAIN U : U[u].username = username}
\* mutant: the email check never finds a row
UserByEmail_none(U, email) == {}

UserByEmail(U, email) == {u \in DOMAIN U : U[u].email = email}

\* db.query(SessionModel).filter(session_token == t).first()
SessionByToken(S, token) == {s \in DOMAIN S : S[s].session_token = token}

First(set) == IF set = {} THEN NoId ELSE CHOOSE x \in set : TRUE

\* ---------------------------------------------------------- auth.py
\* the comparison of validate_session: is the session expired at `clock`?
\* mutant: the comparison turned round
IsExpired_flipped(expires_at, clock) == expires_at > clock

IsExpired(expires_at, clock) == expires_at < clock

\* the first query of validate_session: token and is_valid == True
\* mutant: the is_valid filter left out of the query
FindValidSession_anyrow(S, token) == First(SessionByToken(S, token))

FindValidSession(S, token) ==
    First({s \in SessionByToken(S, token) : S[s].is_valid})

\* mutant: the is_active filter left out of the query
FindActiveUser_any(U, user_id) == First({u \in DOMAIN U : u = user_id})

\* the second query of validate_session: owning user, is_active == True
FindActiveUser(U, user_id) ==
    First({u \in DOMAIN U : u = user_id /\ U[u].is_active})

\* mutant: the expired session is refused but the flip is never committed
validate_session_nowrite(U, S, token, clock) ==
    LET s == FindValidSession(S, token) IN
    IF s = NoId
    THEN [sessions |-> S, user |-> NoId]
    ELSE IF IsExpired(S[s].expires_at, clock)
         THEN [sessions |-> S, user |-> NoId]
         ELSE [sessions |-> S, user |-> FindActiveUser(U, S[s].user_id)]

\* mutant: a successful validation extends the session (sliding expiry)
validate_session_sliding(U, S, token, clock) ==
    LET s == FindValidSession(S, token) IN
    IF s = NoId
    THEN [sessions |-> S, user |-> NoId]
    ELSE IF IsExpired(S[s].expires_at, clock)
         THEN [sessions |-> [S EXCEPT ![s].is_valid = FALSE], user |-> NoId]
         ELSE [sessions |-> [S EXCEPT ![s].expires_at = clock + SESSION_EXPIRY_DAYS],
               user |-> FindActiveUser(U, S[s].user_id)]

\* mutant: a session whose user is inactive is ended
validate_session_endinactive(U, S, token, clock) ==
    LET s == FindValidSession(S, token) IN
    IF s = NoId
    THEN [sessions |-> S, user |-> NoId]
    ELSE IF IsExpired(S[s].expires_at, clock) \/ FindActiveUser(U, S[s].user_id) = NoId
         THEN [sessions |-> [S EXCEPT ![s].is_valid = FALSE], user |-> NoId]
         ELSE [sessions |-> S, user |-> S[s].user_id]

\* validate_session as one call: the sessions table afterwards and the user returned
validate_session(U, S, token, clock) ==
    LET s == FindValidSession(S, token) IN
    IF s = NoId
    THEN [sessions |-> S, user |-> NoId]
    ELSE IF IsExpired(S[s].expires_at, clock)
         THEN [sessions |-> [S EXCEPT ![s].is_valid = FALSE], user |-> NoId]
         ELSE [sessions |-> S, user |-> FindActiveUser(U, S[s].user_id)]

verify_admin(user) == user.is_active /\ user.is_admin

get_admin_user(U, S, token, clock) ==
    LET v == validate_session(U, S, token, clock) IN
    IF v.user = NoId \/ ~verify_admin(U[v.user])
    THEN [sessions |-> v.sessions, user |-> NoId]
    ELSE v

\* mutant: the flag is toggled instead of cleared
invalidate_session_toggle(S, token) ==
    LET s == First(SessionByToken(S, token)) IN
    IF s = NoId
    THEN [sessions |-> S, found |-> FALSE]
    ELSE [sessions |-> [S EXCEPT ![s].is_valid = ~@], found |-> TRUE]

\* mutant: the query also filters on is_valid == True, as validate_session's does
invalidate_session_validonly(S, token) ==
    LET s == First({i \in SessionByToken(S, token) : S[i].is_valid}) IN
    IF s = NoId
    THEN [sessions |-> S, found |-> FALSE]
    ELSE [sessions |-> [S EXCEPT ![s].is_valid = FALSE], found |-> TRUE]

\* mutant: the boolean tells whether the call changed the row
invalidate_session_changed(S, token) ==
    LET s == First(SessionByToken(S, token)) IN
    IF s = NoId
    THEN [sessions |-> S, found |-> FALSE]
    ELSE [sessions |-> [S EXCEPT ![s].is_valid = FALSE], found |-> S[s].is_valid]

\* invalidate_session: the sessions table afterwards and the boolean returned
invalidate_session(S, token) ==
    LET s == First(SessionByToken(S, token)) IN
    IF s = NoId
    THEN [sessions |-> S, found |-> FALSE]
    ELSE [sessions |-> [S EXCEPT ![s].is_valid = FALSE], found |-> TRUE]

\* mutant: last_login_at is written before the password is verified
authenticate_user_stamp(U, username, password, clock) ==
    LET u == First({i \in UserByUsername(U, username) : U[i].is_active}) IN
    IF u = NoId
    THEN [users |-> U, user |-> NoId]
    ELSE IF ~verify_password(password, U[u].password_hash)
         THEN [users |-> [U EXCEPT ![u].last_login_at = {clock}], user |-> NoId]
         ELSE [users |-> [U EXCEPT ![u].last_login_at = {clock}], user |-> u]

\* authenticate_user: the users table afterwards and the user returned
authenticate_user(U, username, password, clock) ==
    LET u == First({i \in UserByUsername(U, username) : U[i].is_active}) IN
    IF u = NoId
    THEN [users |-> U, user |-> NoId]
    ELSE IF ~verify_password(password, U[u].password_hash)
         THEN [users |-> U, user |-> NoId]
         ELSE [users |-> [U EXCEPT ![u].last_login_at = {clock}], user |-> u]

\* mutant: user_id is a plain integer column, no foreign key to users.id
create_session_nofk(U, S, sid, user_id, token, clock) ==
    IF SessionByToken(S, token) # {}
    THEN [sessions |-> S, token |-> None, ok |-> FALSE]
    ELSE [sessions |-> Insert(S, sid,
                         SessionModel(user_id, token, clock + SESSION_EXPIRY_DAYS, clock)),
          token |-> token, ok |-> TRUE]

\* mutant: session_token is a plain column, no unique constraint
create_session_nounique(U, S, sid, user_id, token, clock) ==
    IF user_id \notin DOMAIN U
    THEN [sessions |-> S, token |-> None, ok |-> FALSE]
    ELSE [sessions |-> Insert(S, sid,
                         SessionModel(user_id, token, clock + SESSION_EXPIRY_DAYS, clock)),
          token |-> token, ok |-> TRUE]

\* create_session with `token` the value generate_session_token returned.
\* The INSERT fails (IntegrityError) on the unique constraint of session_token
\* and on the foreign key of user_id; nothing in create_session catches it.
create_session(U, S, sid, user_id, token, clock) ==
    IF SessionByToken(S, token) # {} \/ user_id \notin DOMAIN U
    THEN [sessions |-> S, token |-> None, ok |-> FALSE]
    ELSE [sessions |-> Insert(S, sid,
                         SessionModel(user_id, token, clock + SESSION_EXPIRY_DAYS, clock)),
          token |-> token, ok |-> TRUE]


\* ------------------------------------------------------------- handlers
\* The database a request sees, and what it answers: the database afterwards,
\* the HTTP status, the user the session (or the password) resolved to, and
\* the session_token cookie the response sets.
Database(U, S, uid, sid) ==
    [users |-> U, sessions |-> S, nextUserId |-> uid, nextSessionId |-> sid]

Response(db, status, user, cookie) ==
    [db |-> db, status |-> status, user |-> user, cookie |-> cookie]

\* UpdateUserRequest: three optional fields
UpdateUserRequest ==
    [is_active : Opt(BOOLEAN), is_admin : Opt(BOOLEAN), full_name : Opt(FullNames)]

\* mutant: the new account is made an admin
register_asadmin(db, username, email, password, full_name, salt, token, clock) ==
    IF UserByUsername(db.users, username) # {}
    THEN Response(db, 400, NoId, None)
    ELSE IF UserByEmail(db.users, email) # {}
    THEN Response(db, 400, NoId, None)
    ELSE LET new_user == User(username, email, hash_password(password, salt),
                              full_name, TRUE, TRUE)
             id == db.nextUserId
             U2 == Insert(db.users, id, new_user)
             c  == create_session(U2, db.sessions, db.nextSessionId, id, token, clock)
         IN  IF c.ok
             THEN Response(Database(U2, c.sessions, id + 1, db.nextSessionId + 1),
                           200, id, c.token)
             ELSE Response(Database(U2, db.sessions, id + 1, db.nextSessionId),
                           500, id, None)

\* POST /api/auth/register
register(db, username, email, password, full_name, salt, token, clock) ==
    IF UserByUsername(db.users, username) # {}
    THEN Response(db, 400, NoId, None)
    ELSE IF UserByEmail(db.users, email) # {}
    THEN Response(db, 400, NoId, None)
    ELSE LET new_user == User(username, email, hash_password(password, salt),
                              full_name, TRUE, FALSE)
             id == db.nextUserId
             U2 == Insert(db.users, id, new_user)
             c  == create_session(U2, db.sessions, db.nextSessionId, id, token, clock)
         IN  IF c.ok
             THEN Response(Database(U2, c.sessions, id + 1, db.nextSessionId + 1),
                           200, id, c.token)
             ELSE Response(Database(U2, db.sessions, id + 1, db.nextSessionId),
                           500, id, None)

\* POST /api/auth/login
login(db, username, password, token, clock) ==
    LET a == authenticate_user(db.users, username, password, clock) IN
    IF a.user = NoId
    THEN Response(db, 401, NoId, None)
    ELSE LET c == create_session(a.users, db.sessions, db.nextSessionId, a.user, token, clock)
         IN  IF c.ok
             THEN Response(Database(a.users, c.sessions, db.nextUserId, db.nextSessionId + 1),
                           200, a.user, c.token)
             ELSE Response(Database(a.users, db.sessions, db.nextUserId, db.nextSessionId),
                           500, a.user, None)

\* mutant: logout ends every session of the token's user
logout_everywhere(db, session_token) ==
    LET own == SessionByToken(db.sessions, session_token) IN
    Response([db EXCEPT !.sessions =
                 [s \in DOMAIN db.sessions |->
                     IF \E o \in own : db.sessions[o].user_id = db.sessions[s].user_id
                     THEN [db.sessions[s] EXCEPT !.is_valid = FALSE]
                     ELSE db.sessions[s]]],
             200, NoId, None)

\* POST /api/auth/logout
logout(db, session_token) ==
    IF session_token # None
    THEN Response([db EXCEPT !.sessions = invalidate_session(db.sessions, session_token).sessions],
                  200, NoId, None)
    ELSE Response(db, 200, NoId, None)

\* GET /api/auth/me
get_current_user(db, session_token, clock) ==
    IF session_token = None
    THEN Response(db, 401, NoId, None)
    ELSE LET v == validate_session(db.users, db.sessions, session_token, clock) IN
         Response([db EXCEPT !.sessions = v.sessions],
                  IF v.user = NoId THEN 401 ELSE 200, v.user, None)

\* GET /api/auth/verify
verify_session(db, session_token, clock) ==
    IF session_token = None
    THEN Response(db, 200, NoId, None)
    ELSE LET v == validate_session(db.users, db.sessions, session_token, clock) IN
         Response([db EXCEPT !.sessions = v.sessions], 200, v.user, None)

\* every admin handler starts with get_admin_user and answers 403 when it
\* returns None; the validate_session inside may have expired the session
Denied(db, g) == Response([db EXCEPT !.sessions = g.sessions], 403, NoId, None)

\* GET /api/admin/users
list_users(db, session_token, clock) ==
    LET g == get_admin_user(db.users, db.sessions, session_token, clock) IN
    IF g.user = NoId THEN Denied(db, g) ELSE Response(db, 200, g.user, None)

\* POST /api/admin/users
create_user(db, session_token, username, email, password, full_name, is_admin, salt, clock) ==
    LET g == get_admin_user(db.users, db.sessions, session_token, clock) IN
    IF g.user = NoId
    THEN Denied(db, g)
    ELSE IF UserByUsername(db.users, username) # {}
    THEN Response(db, 400, g.user, None)
    ELSE IF UserByEmail(db.users, email) # {}
    THEN Response(db, 400, g.user, None)
    ELSE LET new_user == User(username, email, hash_password(password, salt),
                              full_name, TRUE, is_admin)
         IN  Response([db EXCEPT !.users = Insert(@, db.nextUserId, new_user),
                                 !.nextUserId = @ + 1],
                      200, g.user, None)

\* the three assignments of update_user
ApplyUpdate(user, request) ==
    [user EXCEPT
        !.is_active = IF request.is_active # {}
                      THEN CHOOSE b \in request.is_active : TRUE ELSE @,
        !.is_admin  = IF request.is_admin # {}
                      THEN CHOOSE b \in request.is_admin : TRUE ELSE @,
        !.full_name = IF request.full_name # {} THEN request.full_name ELSE @]

\* mutant: only the is_active check is made
SelfUpdateForbidden_activeonly(user_id, admin_id, request) ==
    user_id = admin_id /\ request.is_active = {FALSE}

\* the two self-protection checks of update_user
SelfUpdateForbidden(user_id, admin_id, request) ==
    \/ user_id = admin_id /\ request.is_active = {FALSE}
    \/ user_id = admin_id /\ request.is_admin = {FALSE}

\* PUT /api/admin/users/{user_id}
update_user(db, session_token, user_id, request, clock) ==
    LET g == get_admin_user(db.users, db.sessions, session_token, clock) IN
    IF g.user = NoId
    THEN Denied(db, g)
    ELSE IF user_id \notin DOMAIN db.users
    THEN Response(db, 404, g.user, None)
    ELSE IF SelfUpdateForbidden(user_id, g.user, request)
    THEN Response(db, 400, g.user, None)
    ELSE Response([db EXCEPT !.users[user_id] = ApplyUpdate(@, request)], 200, g.user, None)

\* mutant: the check is missing
SelfDeleteForbidden_never(user_id, admin_id) == FALSE

\* the self-protection check of delete_user
SelfDeleteForbidden(user_id, admin_id) == user_id = admin_id

\* DELETE /api/admin/users/{user_id}
delete_user(db, session_token, user_id, clock) ==
    LET g == get_admin_user(db.users, db.sessions, session_token, clock) IN
    IF g.user = NoId
    THEN Denied(db, g)
    ELSE IF user_id \notin DOMAIN db.users
    THEN Response(db, 404, g.user, None)
    ELSE IF SelfDeleteForbidden(user_id, g.user)
    THEN Response(db, 400, g.user, None)
    ELSE Response([db EXCEPT !.users = DeleteRow(@, user_id),
                             !.sessions = CascadeSessions(@, user_id)],
                  200, g.user, None)

\* GET /api/admin/sessions
list_sessions(db, session_token, clock) ==
    LET g == get_admin_user(db.users, db.sessions, session_token, clock) IN
    IF g.user = NoId THEN Denied(db, g) ELSE Response(db, 200, g.user, None)

\* mutant: the row is deleted instead of marked invalid
revoke_session_delete(db, session_token, session_id, clock) ==
    LET g == get_admin_user(db.users, db.sessions, session_token, clock) IN
    IF g.user = NoId
    THEN Denied(db, g)
    ELSE IF session_id \notin DOMAIN db.sessions
    THEN Response(db, 404, g.user, None)
    ELSE Response([db EXCEPT !.sessions = DeleteRow(@, session_id)], 200, g.user, None)

\* DELETE /api/admin/sessions/{session_id}
revoke_session(db, session_token, session_id, clock) ==
    LET g == get_admin_user(db.users, db.sessions, session_token, clock) IN
    IF g.user = NoId
    THEN Denied(db, g)
    ELSE IF session_id \notin DOMAIN db.sessions
    THEN Response(db, 404, g.user, None)
    ELSE Response([db EXCEPT !.sessions[session_id].is_valid = FALSE], 200, g.user, None)

\* ------------------------------------------------------------- upload
\* upload_audio exists twice, with its own allow-list and key prefix each:
\* in app/main.py and in app/routers/audio.py
Profiles == {"main", "router"}

ALLOWED_MIME_TYPES(profile) ==
    IF profile = "main"
    THEN {"audio/wav", "audio/wave", "audio/x-wav", "audio/webm", "audio/mpeg",
          "audio/mp3", "audio/ogg", "audio/x-m4a", "audio/mp4"}
    ELSE {"audio/wav", "audio/wave", "audio/x-wav"}

KeyPrefix(profile) == IF profile = "main" THEN "audio" ELSE "uploads"

\* the uploaded bytes: their number, and the file signature they begin with
Magics == {"RIFF/WAVE", "ID3", "text"}
Sizes == {MIN_SIZE - 1, MIN_SIZE, MAX_SIZE, MAX_SIZE + 1}
Contents == [size : Sizes, magic : Magics]

\* UploadFile: the filename and content type the client declares, and the bytes
Filenames == {[stem |-> "take1", ext |-> ".mp3"], [stem |-> "take1", ext |-> ""]}
ContentTypes == {"audio/wav", "text/plain"}
UploadFile == [filename : Filenames, content_type : ContentTypes, content : Contents]

\* what put_object does: stores the object, or raises
S3Results == {"ok", "ClientError", "Exception"}
Uuids == {"1b9d6bcd"}

\* magic.from_buffer(content, mime=True): the type libmagic reads off the bytes
from_buffer(content) ==
    CASE content.magic = "RIFF/WAVE" -> "audio/x-wav"
      [] content.magic = "ID3"       -> "audio/mpeg"
      [] OTHER                       -> "text/plain"

\* mutant: the type the client declared is believed
DetectMime_declared(audio) == audio.content_type

\* mime = magic.from_buffer(content, mime=True)
DetectMime(audio) == from_buffer(audio.content)

\* mutant: a file of exactly MIN_SIZE bytes is refused
TooSmall_inclusive(file_size) == file_size <= MIN_SIZE

TooSmall(file_size) == file_size < MIN_SIZE

TooLarge(file_size) == file_size > MAX_SIZE

\* mutant: the type is checked before the size
Validate_typefirst(profile, audio) ==
    IF DetectMime(audio) \notin ALLOWED_MIME_TYPES(profile) THEN "Invalid file type"
    ELSE IF TooSmall(audio.content.size) THEN "File too small"
    ELSE IF TooLarge(audio.content.size) THEN "File too large"
    ELSE "ok"

\* the three checks on the content, in the order of the code; the detail of
\* the first that fails
Validate(profile, audio) ==
    IF TooSmall(audio.content.size) THEN "File too small"
    ELSE IF TooLarge(audio.content.size) THEN "File too large"
    ELSE IF DetectMime(audio) \notin ALLOWED_MIME_TYPES(profile) THEN "Invalid file type"
    ELSE "ok"

\* os.path.splitext(audio.filename)[1] or '.wav'
FileExtension(filename) == IF filename.ext = "" THEN ".wav" ELSE filename.ext

\* datetime.utcnow().strftime('%Y%m%d_%H%M%S'): the clock in digits
strftime(clock) == ToString(clock)

\* s3_key = f"{prefix}/{user.username}/{timestamp}_{unique_id}{file_extension}"
S3Key(profile, username, timestamp, unique_id, file_extension) ==
    KeyPrefix(profile) \o "/" \o username \o "/" \o timestamp \o "_" \o unique_id
        \o file_extension

\* the arguments of s3_client.put_object
PutObject(key, content, mime, user_id, username, filename) ==
    [Key |-> key, Body |-> content, ContentType |-> mime,
     Metadata |-> [user_id |-> user_id, username |-> username,
                   original_filename |-> filename]]

UploadResponse(db, status, detail, puts) ==
    [db |-> db, status |-> status, detail |-> detail, puts |-> puts]

\* mutant: a failed put is answered like a bad upload
UpstreamError_validation(db, s3_result, put) ==
    UploadResponse(db, 400,
                   IF s3_result = "ClientError" THEN "S3 upload failed" ELSE "Upload failed",
                   <<put>>)

\* the two except clauses around put_object
UpstreamError(db, s3_result, put) ==
    UploadResponse(db, 500,
                   IF s3_result = "ClientError" THEN "S3 upload failed" ELSE "Upload failed",
                   <<put>>)

\* POST /api/audio/upload; `puts` are the put_object calls the request made
upload_audio(db, profile, session_token, audio, s3_result, unique_id, clock) ==
    IF session_token = None
    THEN UploadResponse(db, 401, "Not authenticated", <<>>)
    ELSE LET v == validate_session(db.users, db.sessions, session_token, clock)
             db2 == [db EXCEPT !.sessions = v.sessions]
         IN
         IF v.user = NoId
         THEN UploadResponse(db2, 401, "Invalid or expired session", <<>>)
         ELSE IF Validate(profile, audio) # "ok"
         THEN UploadResponse(db2, 400, Validate(profile, audio), <<>>)
         ELSE LET user == db.users[v.user]
                  put == PutObject(S3Key(profile, user.username, strftime(clock), unique_id,
                                         FileExtension(audio.filename)),
                                   audio.content, DetectMime(audio), v.user,
                                   user.username, audio.filename)
              IN  IF s3_result = "ok"
                  THEN UploadResponse(db2, 200, "ok", <<put>>)
                  ELSE UpstreamError(db2, s3_result, put)

\* ---------------------------------------------------------------- state
DB == Database(users, sessions, nextUserId, nextSessionId)

\* a request that is not running; `status` is the HTTP status with which the
\* process's last request was refused (0: none was)
Idle == [pc |-> "idle", token |-> None, sid |-> NoId, expires_at |-> 0, user_id |-> NoId,
         op |-> None, username |-> None, email |-> None, is_admin |-> FALSE, status |-> 0,
         target |-> NoId, request |-> [is_active |-> {}, is_admin |-> {}, full_name |-> {}]]

TypeOK ==
    /\ DOMAIN users \subseteq 1..MaxUsers
    /\ DOMAIN sessions \subseteq 1..MaxSessions
    /\ nextUserId \in 1..(MaxUsers + 1)
    /\ nextSessionId \in 1..(MaxSessions + 1)
    /\ now \in Times
    /\ revoked \subseteq DOMAIN sessions
    /\ DOMAIN issued \subseteq 1..MaxSessions
    /\ Cardinality(DOMAIN s3) <= MaxUploads
    /\ \A p \in Procs :
          vs[p].pc \in {"idle", "selected", "authenticated", "checked", "admitted"}

\* The tables are created empty (Base.metadata.create_all); no endpoint can make
\* the first admin, who is provisioned in the database before the service is used.
Init ==
    /\ users = [u \in {1} |->
                  User("admin", "admin@x.com", hash_password("pw123456", "s1"), {}, TRUE, TRUE)]
    /\ sessions = [s \in {} |-> NoId]
    /\ nextUserId = 2
    /\ nextSessionId = 1
    /\ now = 0
    /\ revoked = {}
    /\ issued = [s \in {} |-> None]
    /\ s3 = [k \in {} |-> None]
    /\ vs = [p \in Procs |-> Idle]

\* `issued` also remembers the sessions that S holds
Issued(S) ==
    [s \in DOMAIN issued \cup DOMAIN S |->
        IF s \in DOMAIN S THEN S[s].session_token ELSE issued[s]]

\* the request is served: the database becomes the one of the response
Commit(r) ==
    /\ issued' = Issued(r.db.sessions)
    /\ users' = r.db.users
    /\ sessions' = r.db.sessions
    /\ nextUserId' = r.db.nextUserId
    /\ nextSessionId' = r.db.nextSessionId

\* `revoked` forgets the sessions that a cascade deleted
Keep(S) == revoked \cap DOMAIN S

\* -------------------------------------------------------------- actions
\* datetime.utcnow() moves on to the next instant of Times
Tick ==
    /\ now + SESSION_EXPIRY_DAYS \in Times
    /\ now' = now + SESSION_EXPIRY_DAYS
    /\ UNCHANGED <<users, sessions, nextUserId, nextSessionId, revoked, issued, s3, vs>>

Register(username, email, password, full_name, salt, token) ==
    /\ nextUserId <= MaxUsers
    /\ nextSessionId <= MaxSessions
    /\ Commit(register(DB, username, email, password, full_name, salt, token, now))
    /\ UNCHANGED <<now, revoked, s3, vs>>

Login(username, password, token) ==
    /\ nextSessionId <= MaxSessions
    /\ Commit(login(DB, username, password, token, now))
    /\ UNCHANGED <<now, revoked, s3, vs>>

Logout(session_token) ==
    /\ Commit(logout(DB, session_token))
    /\ revoked' = revoked \cup SessionByToken(sessions, session_token)
    /\ UNCHANGED <<now, s3, vs>>

GetCurrentUser(session_token) ==
    /\ Commit(get_current_user(DB, session_token, now))
    /\ UNCHANGED <<now, revoked, s3, vs>>

VerifySession(session_token) ==
    /\ Commit(verify_session(DB, session_token, now))
    /\ UNCHANGED <<now, revoked, s3, vs>>

ListUsers(session_token) ==
    /\ Commit(list_users(DB, session_token, now))
    /\ UNCHANGED <<now, revoked, s3, vs>>

CreateUser(session_token, username, email, password, full_name, is_admin, salt) ==
    /\ nextUserId <= MaxUsers
    /\ Commit(create_user(DB, session_token, username, email, password, full_name,
                          is_admin, salt, now))
    /\ UNCHANGED <<now, revoked, s3, vs>>

UpdateUser(session_token, user_id, request) ==
    /\ Commit(update_user(DB, session_token, user_id, request, now))
    /\ UNCHANGED <<now, revoked, s3, vs>>

DeleteUser(session_token, user_id) ==
    /\ LET r == delete_user(DB, session_token, user_id, now) IN
       /\ Commit(r)
       /\ revoked' = Keep(r.db.sessions)
    /\ UNCHANGED <<now, s3, vs>>

ListSessions(session_token) ==
    /\ Commit(list_sessions(DB, session_token, now))
    /\ UNCHANGED <<now, revoked, s3, vs>>

RevokeSession(session_token, session_id) ==
    /\ LET r == revoke_session(DB, session_token, session_id, now) IN
       /\ Commit(r)
       /\ revoked' = IF r.status = 200 THEN revoked \cup {session_id} ELSE revoked
    /\ UNCHANGED <<now, s3, vs>>

\* the bucket after the request: a put that succeeded stored its object
Stored(r) ==
    IF r.status = 200
    THEN Insert(s3, r.puts[1].Key, r.puts[1])
    ELSE s3

Upload(profile, session_token, audio, s3_result, unique_id) ==
    /\ LET r == upload_audio(DB, profile, session_token, audio, s3_result, unique_id, now) IN
       /\ Cardinality(DOMAIN Stored(r)) <= MaxUploads
       /\ Commit(r)
       /\ s3' = Stored(r)
    /\ UNCHANGED <<now, revoked, vs>>

\* ------------------------------------------------------- specification
Cookies == Tokens \cup {None}
\* the password a new user is given; a login may try any of Passwords
NewPasswords == {"pw123456"}

Next ==
    \/ Tick
    \/ \E u \in Usernames, e \in Emails, p \in NewPasswords, f \in Opt(FullNames),
          s \in Salts, t \in Tokens : Register(u, e, p, f, s, t)
    \/ \E u \in Usernames, p \in Passwords, t \in Tokens : Login(u, p, t)
    \/ \E t \in Cookies : Logout(t)
    \/ \E t \in Cookies : GetCurrentUser(t)
    \/ \E t \in Cookies : VerifySession(t)
    \/ \E t \in Cookies : ListUsers(t)
    \/ \E t \in Cookies, u \in Usernames, e \in Emails, p \in NewPasswords,
          f \in Opt(FullNames), a \in BOOLEAN, s \in Salts :
          CreateUser(t, u, e, p, f, a, s)
    \/ \E t \in Cookies, u \in 1..MaxUsers, r \in UpdateUserRequest : UpdateUser(t, u, r)
    \/ \E t \in Cookies, u \in 1..MaxUsers : DeleteUser(t, u)
    \/ \E t \in Cookies : ListSessions(t)
    \/ \E t \in Cookies, s \in 1..MaxSessions : RevokeSession(t, s)

Spec == Init /\ [][Next]_vars

\* ------------------------------------- validate_session, statement by statement
\* the SELECT of the session row (auth.py 79-85); a call that finds no row
\* returns at once and is the atomic call
VsSelect(p, session_token) ==
    /\ vs[p].pc = "idle"
    /\ LET s == FindValidSession(sessions, session_token) IN
       /\ s # NoId
       /\ vs' = [vs EXCEPT ![p] = [Idle EXCEPT !.pc = "selected", !.token = session_token,
                                               !.sid = s,
                                               !.expires_at = sessions[s].expires_at,
                                               !.user_id = sessions[s].user_id]]
    /\ UNCHANGED <<users, sessions, nextUserId, nextSessionId, now, revoked, issued, s3>>

\* the clock is read and the row found expired: session.is_valid = False; db.commit(),
\* an UPDATE of the row by its id (auth.py 88-92)
VsExpire(p) ==
    /\ vs[p].pc = "selected"
    /\ IsExpired(vs[p].expires_at, now)
    /\ sessions' = IF vs[p].sid \in DOMAIN sessions
                   THEN [sessions EXCEPT ![vs[p].sid].is_valid = FALSE]
                   ELSE sessions
    /\ vs' = [vs EXCEPT ![p] = Idle]
    /\ UNCHANGED <<users, nextUserId, nextSessionId, now, revoked, issued, s3>>

\* the clock is read and the row found unexpired: the SELECT of the user (auth.py 95-100)
VsUser(p) ==
    /\ vs[p].pc = "selected"
    /\ ~IsExpired(vs[p].expires_at, now)
    /\ vs' = [vs EXCEPT ![p] = Idle]
    /\ UNCHANGED <<users, sessions, nextUserId, nextSessionId, now, revoked, issued, s3>>

NextConc ==
    \/ Tick
    \/ \E u \in Usernames, p \in Passwords, t \in Tokens : Login(u, p, t)
    \/ \E t \in Cookies : GetCurrentUser(t)
    \/ \E p \in Procs, t \in Tokens : VsSelect(p, t)
    \/ \E p \in Procs : VsExpire(p)
    \/ \E p \in Procs : VsUser(p)

SpecConc == Init /\ [][NextConc]_vars

\* ------------------------------ login and register, statement by statement
\* login up to the commit of authenticate_user (main.py 152, auth.py 57-73):
\* the request holds the user it authenticated
LoginAuthenticate(p, username, password) ==
    /\ vs[p].pc = "idle"
    /\ LET a == authenticate_user(users, username, password, now) IN
       /\ a.user # NoId
       /\ users' = a.users
       /\ vs' = [vs EXCEPT ![p] = [Idle EXCEPT !.pc = "authenticated", !.user_id = a.user]]
    /\ UNCHANGED <<sessions, nextUserId, nextSessionId, now, revoked, issued, s3>>

\* register up to the commit of the new user row (main.py 101-123)
RegisterAdd(p, username, email, password, full_name, salt) ==
    /\ vs[p].pc = "idle"
    /\ nextUserId <= MaxUsers
    /\ UserByUsername(users, username) = {}
    /\ UserByEmail(users, email) = {}
    /\ users' = Insert(users, nextUserId,
                       User(username, email, hash_password(password, salt),
                            full_name, TRUE, FALSE))
    /\ nextUserId' = nextUserId + 1
    /\ vs' = [vs EXCEPT ![p] = [Idle EXCEPT !.pc = "authenticated", !.user_id = nextUserId]]
    /\ UNCHANGED <<sessions, nextSessionId, now, revoked, issued, s3>>

\* the create_session call that ends login and register (main.py 161, 126);
\* the user may have been deleted since the request read it
CreateSession(p, token) ==
    /\ vs[p].pc = "authenticated"
    /\ nextSessionId <= MaxSessions
    /\ LET c == create_session(users, sessions, nextSessionId, vs[p].user_id, token, now) IN
       /\ sessions' = c.sessions
       /\ nextSessionId' = IF c.ok THEN nextSessionId + 1 ELSE nextSessionId
       /\ issued' = Issued(c.sessions)
    /\ vs' = [vs EXCEPT ![p] = Idle]
    /\ UNCHANGED <<users, nextUserId, now, revoked, s3>>

NextOwn ==
    \/ \E u \in Usernames, e \in Emails, p \in NewPasswords, f \in Opt(FullNames),
          s \in Salts, t \in Tokens : Register(u, e, p, f, s, t)
    \/ \E u \in Usernames, p \in Passwords, t \in Tokens : Login(u, p, t)
    \/ \E t \in Cookies, u \in 1..MaxUsers : DeleteUser(t, u)
    \/ \E p \in Procs, u \in Usernames, w \in Passwords : LoginAuthenticate(p, u, w)
    \/ \E p \in Procs, u \in Usernames, e \in Emails, w \in NewPasswords,
          f \in Opt(FullNames), s \in Salts : RegisterAdd(p, u, e, w, f, s)
    \/ \E p \in Procs, t \in Tokens : CreateSession(p, t)

SpecOwn == Init /\ [][NextOwn]_vars

\* -------------------------- register and create_user, statement by statement
\* the two existence queries of register (main.py 101-108): a request that
\* finds a row answers 400; one that finds none goes on to build the user
RegisterCheck(p, username, email) ==
    /\ vs[p].pc = "idle"
    /\ vs' = [vs EXCEPT ![p] =
                IF UserByUsername(users, username) # {} \/ UserByEmail(users, email) # {}
                THEN [Idle EXCEPT !.status = 400]
                ELSE [Idle EXCEPT !.pc = "checked", !.op = "register",
                                  !.username = username, !.email = email]]
    /\ UNCHANGED <<users, sessions, nextUserId, nextSessionId, now, revoked, issued, s3>>

\* get_admin_user and the two existence queries of create_user (main.py 421-433)
CreateUserCheck(p, session_token, username, email, is_admin) ==
    /\ vs[p].pc = "idle"
    /\ LET g == get_admin_user(users, sessions, session_token, now) IN
       /\ sessions' = g.sessions
       /\ vs' = [vs EXCEPT ![p] =
                   IF g.user = NoId
                   THEN [Idle EXCEPT !.status = 403]
                   ELSE IF UserByUsername(users, username) # {} \/ UserByEmail(users, email) # {}
                   THEN [Idle EXCEPT !.status = 400]
                   ELSE [Idle EXCEPT !.pc = "checked", !.op = "create_user",
                                     !.username = username, !.email = email,
                                     !.is_admin = is_admin]]
    /\ UNCHANGED <<users, nextUserId, nextSessionId, now, revoked, issued, s3>>

\* db.add(new_user); db.commit() (main.py 121-122, 447-448). The INSERT fails on
\* the unique constraints of users.username and users.email (models.py 13-14)
\* when another request has committed the name or the email since the check;
\* nothing catches the IntegrityError and the request answers 500.
UserInsert(p, password, full_name, salt) ==
    /\ vs[p].pc = "checked"
    /\ IF UserByUsername(users, vs[p].username) # {} \/ UserByEmail(users, vs[p].email) # {}
       THEN /\ vs' = [vs EXCEPT ![p] = [Idle EXCEPT !.status = 500]]
            /\ UNCHANGED <<users, nextUserId>>
       ELSE /\ nextUserId <= MaxUsers
            /\ users' = Insert(users, nextUserId,
                              User(vs[p].username, vs[p].email, hash_password(password, salt),
                                   full_name, TRUE, vs[p].is_admin))
            /\ nextUserId' = nextUserId + 1
            /\ vs' = [vs EXCEPT ![p] =
                        IF vs[p].op = "register"
                        THEN [Idle EXCEPT !.pc = "authenticated", !.user_id = nextUserId]
                        ELSE Idle]
    /\ UNCHANGED <<sessions, nextSessionId, now, revoked, issued, s3>>

NextReg ==
    \/ \E u \in Usernames, p \in Passwords, t \in Tokens : Login(u, p, t)
    \/ \E p \in Procs, u \in Usernames, e \in Emails : RegisterCheck(p, u, e)
    \/ \E p \in Procs, c \in Cookies, u \in Usernames, e \in Emails, a \in BOOLEAN :
          CreateUserCheck(p, c, u, e, a)
    \/ \E p \in Procs, w \in NewPasswords, f \in Opt(FullNames), s \in Salts :
          UserInsert(p, w, f, s)
    \/ \E p \in Procs, t \in Tokens : CreateSession(p, t)

SpecReg == Init /\ [][NextReg]_vars

\* ---------------------- update_user and delete_user, statement by statement
\* admin_user = auth.get_admin_user(db, session_token) and the 403 check
\* (main.py 461-463, 498-500): the request holds the admin it was admitted as
AdminGate(p, session_token, op, user_id, request) ==
    /\ vs[p].pc = "idle"
    /\ LET g == get_admin_user(users, sessions, session_token, now) IN
       /\ sessions' = g.sessions
       /\ vs' = [vs EXCEPT ![p] =
                   IF g.user = NoId
                   THEN [Idle EXCEPT !.status = 403]
                   ELSE [Idle EXCEPT !.pc = "admitted", !.op = op, !.user_id = g.user,
                                     !.target = user_id, !.request = request]]
    /\ UNCHANGED <<users, nextUserId, nextSessionId, now, revoked, issued, s3>>

\* the rest of update_user (main.py 465-486): the query of the target row,
\* the two self-protection checks, the assignments and the commit
UpdateUserCommit(p) ==
    /\ vs[p].pc = "admitted"
    /\ vs[p].op = "update_user"
    /\ IF vs[p].target \notin DOMAIN users
       THEN /\ vs' = [vs EXCEPT ![p] = [Idle EXCEPT !.status = 404]]
            /\ UNCHANGED users
       ELSE IF SelfUpdateForbidden(vs[p].target, vs[p].user_id, vs[p].request)
       THEN /\ vs' = [vs EXCEPT ![p] = [Idle EXCEPT !.status = 400]]
            /\ UNCHANGED users
       ELSE /\ users' = [users EXCEPT ![vs[p].target] = ApplyUpdate(@, vs[p].request)]
            /\ vs' = [vs EXCEPT ![p] = Idle]
    /\ UNCHANGED <<sessions, nextUserId, nextSessionId, now, revoked, issued, s3>>

\* the rest of delete_user (main.py 502-511)
DeleteUserCommit(p) ==
    /\ vs[p].pc = "admitted"
    /\ vs[p].op = "delete_user"
    /\ IF vs[p].target \notin DOMAIN users
       THEN /\ vs' = [vs EXCEPT ![p] = [Idle EXCEPT !.status = 404]]
            /\ UNCHANGED <<users, sessions, revoked>>
       ELSE IF SelfDeleteForbidden(vs[p].target, vs[p].user_id)
       THEN /\ vs' = [vs EXCEPT ![p] = [Idle EXCEPT !.status = 400]]
            /\ UNCHANGED <<users, sessions, revoked>>
       ELSE /\ users' = DeleteRow(users, vs[p].target)
            /\ sessions' = CascadeSessions(sessions, vs[p].target)
            /\ revoked' = Keep(CascadeSessions(sessions, vs[p].target))
            /\ vs' = [vs EXCEPT ![p] = Idle]
    /\ UNCHANGED <<nextUserId, nextSessionId, now, issued, s3>>

\* the update requests that leave full_name alone
FlagRequests == {r \in UpdateUserRequest : r.full_name = {}}

NextAdmin ==
    \/ \E u \in Usernames, p \in Passwords, t \in Tokens : Login(u, p, t)
    \/ \E t \in Cookies, u \in Usernames, e \in Emails, p \in NewPasswords,
          a \in BOOLEAN, s \in Salts :
          CreateUser(t, u, e, p, {}, a, s)
    \/ \E p \in Procs, t \in Cookies, u \in 1..MaxUsers, r \in FlagRequests :
          AdminGate(p, t, "update_user", u, r)
    \/ \E p \in Procs, t \in Cookies, u \in 1..MaxUsers :
          AdminGate(p, t, "delete_user", u, Idle.request)
    \/ \E p \in Procs : UpdateUserCommit(p)
    \/ \E p \in Procs : DeleteUserCommit(p)

SpecAdmin == Init /\ [][NextAdmin]_vars

\* ------------------------------------------------------ the upload service
NextUpload ==
    \/ Tick
    \/ \E u \in Usernames, p \in Passwords, t \in Tokens : Login(u, p, t)
    \/ \E f \in Profiles, t \in Cookies, a \in UploadFile, r \in S3Results, i \in Uuids :
          Upload(f, t, a, r, i)

SpecUpload == Init /\ [][NextUpload]_vars

\* RegisterRequest.username is any str (schemas.py 13-17): a plain name, and
\* one that holds the separator of the object keys
KeyUsernames == {"alice", "admin/x"}

NextKeys ==
    \/ \E u \in Usernames, p \in Passwords, t \in Tokens : Login(u, p, t)
    \/ \E u \in KeyUsernames, e \in Emails, p \in NewPasswords, s \in Salts, t \in Tokens :
          Register(u, e, p, {}, s, t)
    \/ \E f \in Profiles, t \in Cookies, a \in UploadFile, r \in S3Results, i \in Uuids :
          Upload(f, t, a, r, i)

SpecKeys == Init /\ [][NextKeys]_vars

\* ===================================================================== claims
\* what the specification calls a live session presented with `token`: the
\* record is valid, expires strictly in the future, and its owner is active
LiveSession(token, user_id) ==
    \E s \in DOMAIN sessions :
        /\ sessions[s].session_token = token
        /\ sessions[s].is_valid
        /\ sessions[s].expires_at > now
        /\ sessions[s].user_id = user_id
        /\ user_id \in DOMAIN users
        /\ users[user_id].is_active

\* C1: validate_session(token) returns a user u only if a session with that
\* token exists with is_valid = true, expires_at strictly later than the current
\* time, user_id = u.id and u.is_active = true; otherwise it returns none.
C1_ValidateOnlyLive ==
    \A t \in Cookies :
        LET v == validate_session(users, sessions, t, now) IN
        v.user # NoId => LiveSession(t, v.user)

\* C2: for an active user u, create_session(u.id) (as login and register call
\* it) followed at once by validate_session of the returned token returns u.
C2_CreateThenValidate ==
    /\ \A u \in Usernames, p \in Passwords, t \in Tokens :
          LET r == login(DB, u, p, t, now) IN
          (r.status = 200 /\ now < r.db.sessions[nextSessionId].expires_at)
              => validate_session(r.db.users, r.db.sessions, r.cookie, now).user = r.user
    /\ \A u \in Usernames, e \in Emails, p \in NewPasswords, f \in Opt(FullNames),
          x \in Salts, t \in Tokens :
          LET r == register(DB, u, e, p, f, x, t, now) IN
          (r.status = 200 /\ now < r.db.sessions[nextSessionId].expires_at)
              => validate_session(r.db.users, r.db.sessions, r.cookie, now).user = r.user

\* a session was created at this instant and its token validates to its owner
C2_Witness ==
    \E s \in DOMAIN sessions :
        /\ sessions[s].created_at = now
        /\ s = nextSessionId - 1
        /\ validate_session(users, sessions, sessions[s].session_token, now).user
              = sessions[s].user_id

\* C3: for a valid session whose expires_at is in the past, validate_session
\* returns none and sets is_valid to false; a second validate_session on the
\* same token returns none, finds no valid row, and changes nothing further.
C3_LazyExpiryOnce ==
    \A s \in DOMAIN sessions :
        (sessions[s].is_valid /\ sessions[s].expires_at < now) =>
            LET t  == sessions[s].session_token
                v1 == validate_session(users, sessions, t, now)
                v2 == validate_session(users, v1.sessions, t, now)
            IN  /\ v1.user = NoId
                /\ ~v1.sessions[s].is_valid
                /\ \A o \in DOMAIN sessions \ {s} : v1.sessions[o] = sessions[o]
                /\ FindValidSession(v1.sessions, t) = NoId
                /\ v2.user = NoId
                /\ v2.sessions = v1.sessions

\* a session past its expiry that a validate_session call has invalidated
\* (it is invalid, and neither logout nor revoke_session did it)
C3_Witness ==
    \E s \in DOMAIN sessions :
        /\ ~sessions[s].is_valid
        /\ sessions[s].expires_at < now
        /\ s \notin revoked

\* no two running calls hold the same row, read as valid and by now expired
C4_AtMostOneObserver ==
    \A p, q \in Procs :
        (/\ p # q
         /\ vs[p].pc = "selected" /\ vs[q].pc = "selected"
         /\ vs[p].sid = vs[q].sid
         /\ IsExpired(vs[p].expires_at, now)) => FALSE

\* the UPDATE of a running call finds is_valid still true
C4_WriteOnce ==
    \A p \in Procs :
        (/\ vs[p].pc = "selected" /\ vs'[p].pc = "idle"
         /\ IsExpired(vs[p].expires_at, now)
         /\ vs[p].sid \in DOMAIN sessions) => sessions[vs[p].sid].is_valid

\* C4: two validate_session calls racing on one valid-but-expired token: at
\* most one of them observes the session as valid, and the true-to-false
\* write is applied once (read, expiry check and write are one atomic update).
C4_AtomicExpiry == [][C4_WriteOnce]_vars /\ []C4_AtMostOneObserver

\* C5: expiry is inclusive: a valid session with expires_at <= now, and so one
\* with expires_at = now, makes validate_session return none and flip is_valid.
C5_ExpiryInclusive ==
    \A s \in DOMAIN sessions :
        (sessions[s].is_valid /\ sessions[s].expires_at <= now) =>
            LET v == validate_session(users, sessions, sessions[s].session_token, now)
            IN  v.user = NoId /\ ~v.sessions[s].is_valid

\* C6: once a session's is_valid is false it stays false in every later state.
C6_NeverResurrected ==
    [][\A s \in DOMAIN sessions :
          (~sessions[s].is_valid /\ s \in DOMAIN sessions') => ~sessions'[s].is_valid]_vars

\* an invalid session is stored, and a session was created after it
C6_Witness ==
    \E s \in DOMAIN sessions : ~sessions[s].is_valid /\ nextSessionId > s + 1

LiveAdmin(token) ==
    \E u \in DOMAIN users : LiveSession(token, u) /\ users[u].is_admin

\* a denied admin request: 403, no user returned, the users table as it was,
\* and of the sessions nothing but the lazy expiry of the presented token
DeniedUnchanged(r, token) ==
    /\ r.status = 403
    /\ r.user = NoId
    /\ r.db.users = users
    /\ r.db.nextUserId = nextUserId
    /\ r.db.nextSessionId = nextSessionId
    /\ r.db.sessions = validate_session(users, sessions, token, now).sessions
    /\ \A s \in DOMAIN sessions :
          (sessions[s].is_valid /\ sessions[s].expires_at > now) => r.db.sessions[s].is_valid

\* C8: every admin endpoint changes or returns state only when get_admin_user
\* returned an active user with is_admin = true presenting a live session; a
\* denied request creates, updates and deletes no user and revokes no session.
C8_AdminGate ==
    \A t \in Cookies :
        ~LiveAdmin(t) =>
            /\ DeniedUnchanged(list_users(DB, t, now), t)
            /\ DeniedUnchanged(list_sessions(DB, t, now), t)
            /\ \A u \in Usernames, e \in Emails, p \in NewPasswords, f \in Opt(FullNames),
                  a \in BOOLEAN, x \in Salts :
                  DeniedUnchanged(create_user(DB, t, u, e, p, f, a, x, now), t)
            /\ \A u \in 1..MaxUsers, r \in UpdateUserRequest :
                  DeniedUnchanged(update_user(DB, t, u, r, now), t)
            /\ \A u \in 1..MaxUsers : DeniedUnchanged(delete_user(DB, t, u, now), t)
            /\ \A s \in 1..MaxSessions : DeniedUnchanged(revoke_session(DB, t, s, now), t)

\* C9: get_admin_user returns none alike for a missing token, an expired token
\* (expires_at <= now), a live token of a non-admin, and a valid token of an
\* inactive former admin.
C9_UniformDenial ==
    /\ get_admin_user(users, sessions, None, now).user = NoId
    /\ \A s \in DOMAIN sessions :
          LET u == sessions[s].user_id IN
          (\/ sessions[s].expires_at <= now
           \/ ~users[u].is_admin
           \/ ~users[u].is_active)
              => get_admin_user(users, sessions, sessions[s].session_token, now).user = NoId

\* C10: update_user on the calling admin's own id with is_active = false or
\* is_admin = false, and delete_user on the calling admin's own id, answer an
\* error (400) and leave every user and every session as they were.
C10_SelfProtection ==
    \A t \in Cookies :
        LET a == get_admin_user(users, sessions, t, now).user IN
        a # NoId =>
            /\ \A r \in UpdateUserRequest :
                  (r.is_active = {FALSE} \/ r.is_admin = {FALSE}) =>
                      LET o == update_user(DB, t, a, r, now) IN
                      o.status = 400 /\ o.db = DB
            /\ LET d == delete_user(DB, t, a, now) IN d.status = 400 /\ d.db = DB

\* an admin holds a session that passes the gate, has no full_name yet (a
\* full_name in the rejected request would show), and another user's sessions exist
C10_Witness ==
    \E t \in Tokens :
        LET a == get_admin_user(users, sessions, t, now).user IN
        /\ a # NoId
        /\ users[a].full_name = {}
        /\ \E s \in DOMAIN sessions : sessions[s].user_id # a

\* C11: invalidate_session(token) returns true iff a session record with that
\* token exists, whatever its is_valid; afterwards the record has is_valid =
\* false, and a repeated call leaves the state as it is and returns the same.
C11_InvalidateIdempotent ==
    \A t \in Tokens :
        LET r1 == invalidate_session(sessions, t)
            r2 == invalidate_session(r1.sessions, t)
        IN  /\ r1.found <=> (SessionByToken(sessions, t) # {})
            /\ DOMAIN r1.sessions = DOMAIN sessions
            /\ \A s \in DOMAIN sessions :
                  IF sessions[s].session_token = t
                  THEN r1.sessions[s] = [sessions[s] EXCEPT !.is_valid = FALSE]
                  ELSE r1.sessions[s] = sessions[s]
            /\ r2.sessions = r1.sessions
            /\ r2.found = r1.found

\* a logout or revocation has invalidated one session while another is still
\* valid: the call meets a record of either kind
C11_Witness ==
    \E s \in revoked, o \in DOMAIN sessions :
        ~sessions[s].is_valid /\ sessions[o].is_valid

\* C12 as stated: invalidate_session called with a token that has no session
\* record, or with a token whose session is already invalid, returns false.
C12_InvalidFalse ==
    \A t \in Tokens :
        (\A s \in SessionByToken(sessions, t) : ~sessions[s].is_valid)
            => ~invalidate_session(sessions, t).found

\* C12 amended: with a token that has no session record invalidate_session
\* returns false; with a token whose session is already invalid it returns
\* true; in both cases it changes no record.
C12_UnknownFalseInvalidTrue ==
    \A t \in Tokens :
        LET r == invalidate_session(sessions, t) IN
        /\ SessionByToken(sessions, t) = {} => (~r.found /\ r.sessions = sessions)
        /\ (\E s \in SessionByToken(sessions, t) : ~sessions[s].is_valid)
              => (r.found /\ r.sessions = sessions)

\* one token belongs to an already invalid session and another to no session
C12_Witness ==
    /\ \E s \in DOMAIN sessions : ~sessions[s].is_valid
    /\ \E t \in Tokens : SessionByToken(sessions, t) = {}

\* C13: delete_user(X) performed by an admin removes user X and every session
\* with user_id = X, and leaves every other user and every session owned by
\* another user unchanged.
C13_DeleteCascade ==
    \A t \in Cookies, x \in 1..MaxUsers :
        LET r == delete_user(DB, t, x, now) IN
        r.status = 200 =>
            /\ DOMAIN r.db.users = DOMAIN users \ {x}
            /\ \A u \in DOMAIN r.db.users : r.db.users[u] = users[u]
            /\ DOMAIN r.db.sessions = {s \in DOMAIN sessions : sessions[s].user_id # x}
            /\ \A s \in DOMAIN r.db.sessions : r.db.sessions[s] = sessions[s]

\* a user that owned a session has been deleted, and a session of another
\* user is still stored
C13_Witness ==
    /\ \E u \in 1..(nextUserId - 1) : u \notin DOMAIN users
    /\ \E s \in 1..(nextSessionId - 1) : s \notin DOMAIN sessions
    /\ DOMAIN sessions # {}

\* C14: in every reachable state, under any interleaving of register, login,
\* create_session and admin delete_user, every stored session's user_id
\* refers to a user that exists in the store (no orphaned sessions).
C14_NoOrphans ==
    \A s \in DOMAIN sessions : sessions[s].user_id \in DOMAIN users

\* a request authenticated a user, the user was deleted before the request
\* reached create_session, and another user's session is stored
C14_Witness ==
    /\ \E p \in Procs : vs[p].pc = "authenticated" /\ vs[p].user_id \notin DOMAIN users
    /\ DOMAIN sessions # {}

\* every record of S is still in T, changed at most in is_valid
KeptInPlace(S, T) ==
    /\ DOMAIN T = DOMAIN S
    /\ \A s \in DOMAIN S : \E b \in BOOLEAN : T[s] = [S[s] EXCEPT !.is_valid = b]

\* a step removes a session record only together with the user that owns it
C15_RemovedWithOwner ==
    \A s \in DOMAIN sessions :
        s \notin DOMAIN sessions' =>
            (sessions[s].user_id \in DOMAIN users /\ sessions[s].user_id \notin DOMAIN users')

\* logout, admin revoke_session and validate_session leave every record in place
C15_FlipOnly ==
    \A t \in Cookies :
        /\ KeptInPlace(sessions, logout(DB, t).db.sessions)
        /\ KeptInPlace(sessions, validate_session(users, sessions, t, now).sessions)
        /\ \A s \in 1..MaxSessions :
              KeptInPlace(sessions, revoke_session(DB, t, s, now).db.sessions)

\* C15: a session record is removed from the store only by the cascade of
\* deleting its owning user; logout, admin revoke_session and lazy expiry only
\* set is_valid = false and leave the record in place.
C15_RemovedOnlyByCascade == [][C15_RemovedWithOwner]_vars /\ []C15_FlipOnly

\* a session has gone with its user, and a session that was logged out or
\* revoked is still stored, invalid
C15_Witness ==
    /\ \E i \in 1..(nextSessionId - 1) : i \notin DOMAIN sessions
    /\ \E s \in revoked : ~sessions[s].is_valid

\* C16: validate_session on a valid, unexpired session whose owning user has
\* is_active = false returns none and leaves the session record (is_valid
\* included) unchanged; an admin update_user that sets is_active = false
\* changes no session record.
C16_DeactivationKeepsSessions ==
    /\ \A s \in DOMAIN sessions :
          (/\ sessions[s].is_valid
           /\ sessions[s].expires_at > now
           /\ ~users[sessions[s].user_id].is_active) =>
              LET v == validate_session(users, sessions, sessions[s].session_token, now)
              IN  v.user = NoId /\ v.sessions = sessions
    /\ \A t \in Cookies, u \in 1..MaxUsers, r \in UpdateUserRequest :
          LET o == update_user(DB, t, u, r, now) IN
          (r.is_active = {FALSE} /\ o.status = 200) =>
              (o.db.sessions = sessions /\ ~o.db.users[u].is_active)

\* a user has been deactivated while holding a valid, unexpired session
C16_Witness ==
    \E s \in DOMAIN sessions :
        /\ sessions[s].is_valid
        /\ sessions[s].expires_at > now
        /\ ~users[sessions[s].user_id].is_active

\* the user, if any, that `username` and `password` authenticate: active, and
\* the password is the one its hash was made from
Authenticates(username, password) ==
    {u \in DOMAIN users :
        /\ users[u].username = username
        /\ users[u].is_active
        /\ users[u].password_hash.digest = Digest(users[u].password_hash.salt, password)}

\* C17: authenticate_user returns the user and, as its only state change, sets
\* that user's last_login_at when the username belongs to an active user and
\* the password verifies; for an unknown username, an inactive user or a wrong
\* password it returns none and changes no state.
C17_AuthenticateUser ==
    \A username \in Usernames, password \in Passwords :
        LET a == authenticate_user(users, username, password, now) IN
        IF Authenticates(username, password) # {}
        THEN /\ a.user \in Authenticates(username, password)
             /\ a.users = [users EXCEPT ![a.user].last_login_at = {now}]
        ELSE /\ a.user = NoId
             /\ a.users = users

\* a user has logged in at this instant, and another user, who knows their
\* password, is inactive
C17_Witness ==
    /\ \E u \in DOMAIN users : users[u].is_active /\ users[u].last_login_at = {now}
    /\ \E u \in DOMAIN users, p \in Passwords :
          ~users[u].is_active /\ verify_password(p, users[u].password_hash)

FreshToken(token) == SessionByToken(sessions, token) = {}

\* C19: if the token generated inside create_session collides with the
\* session_token of an existing session, create_session retries with a
\* freshly generated token and returns the token of a newly persisted session
\* instead of failing.
C19_RetryOnCollision ==
    \A u \in DOMAIN users, t \in Tokens :
        (~FreshToken(t) /\ \E f \in Tokens : FreshToken(f)) =>
            LET c == create_session(users, sessions, nextSessionId, u, t, now) IN
            /\ c.ok
            /\ FreshToken(c.token)
            /\ \E s \in DOMAIN c.sessions \ DOMAIN sessions :
                  c.sessions[s].session_token = c.token

\* C20: create_session persists exactly one new session with is_valid = true,
\* user_id equal to the given user and expires_at = creation time + the TTL
\* (7 days), returns that session's token, and changes no other session.
C20_CreateSessionEffect ==
    \A u \in DOMAIN users, t \in Tokens :
        (\E f \in Tokens : FreshToken(f)) =>
            LET c == create_session(users, sessions, nextSessionId, u, t, now) IN
            /\ \E s \in DOMAIN c.sessions \ DOMAIN sessions :
                  /\ DOMAIN c.sessions = DOMAIN sessions \cup {s}
                  /\ c.sessions[s].is_valid
                  /\ c.sessions[s].user_id = u
                  /\ c.sessions[s].expires_at = now + SESSION_EXPIRY_DAYS
                  /\ c.sessions[s].session_token = c.token
            /\ \A o \in DOMAIN sessions : c.sessions[o] = sessions[o]

\* a username or an email that a stored user already holds
Taken(username, email) ==
    \E i \in DOMAIN users : users[i].username = username \/ users[i].email = email

\* C21: register and admin create_user called with a username or an email
\* already held by a stored user are rejected as a validation error (400) and
\* create no user and no session.
C21_DuplicateRejected ==
    \A u \in Usernames, e \in Emails, p \in NewPasswords, f \in Opt(FullNames), x \in Salts :
        Taken(u, e) =>
            /\ \A t \in Tokens :
                  LET r == register(DB, u, e, p, f, x, t, now) IN
                  r.status = 400 /\ r.db = DB
            /\ \A c \in Cookies, a \in BOOLEAN :
                  LET r == create_user(DB, c, u, e, p, f, a, x, now) IN
                  /\ r.db.users = users
                  /\ DOMAIN r.db.sessions = DOMAIN sessions
                  /\ get_admin_user(users, sessions, c, now).user # NoId
                        => (r.status = 400 /\ r.db = DB)

\* an admin holds a session that passes the gate while a username is taken
\* whose email is free and an email is taken whose username is free
C21_Witness ==
    /\ \E c \in Tokens : get_admin_user(users, sessions, c, now).user # NoId
    /\ \E u \in Usernames, e \in Emails :
          UserByUsername(users, u) # {} /\ UserByEmail(users, e) = {}
    /\ \E u \in Usernames, e \in Emails :
          UserByUsername(users, u) = {} /\ UserByEmail(users, e) # {}

\* usernames and emails are unique among the stored users
UsersUnique ==
    \A a, b \in DOMAIN users :
        a # b => (users[a].username # users[b].username /\ users[a].email # users[b].email)

\* C22: when two register or create_user requests with the same username (or
\* the same email) both pass the existence check before either commits,
\* exactly one creates a user and the other is rejected as a duplicate
\* (validation error, 400), so usernames and emails stay unique.
C22_ConcurrentDuplicate ==
    /\ UsersUnique
    /\ \A p \in Procs : vs[p].status \in {0, 400, 403}

\* every upload request that can be made in the current state
UploadRequests == Profiles \X Cookies \X UploadFile \X S3Results \X Uuids

UploadOf(q) == upload_audio(DB, q[1], q[2], q[3], q[4], q[5], now)

\* the session token of the request validates to an active user
ValidatesToActive(session_token) ==
    /\ session_token # None
    /\ LET u == validate_session(users, sessions, session_token, now).user IN
       u # NoId /\ users[u].is_active

SizeAccepted(content) == content.size >= MIN_SIZE /\ content.size <= MAX_SIZE

TypeAccepted(profile, content) == from_buffer(content) \in ALLOWED_MIME_TYPES(profile)

\* C23: put_object is called at most once per upload request and only after,
\* in this order, the session token validated to an active user, the size
\* check passed and the sniffed MIME type was found in the allow-list; a
\* request rejected at any of these steps performs no object-store call.
C23_PutOnceAfterChecks ==
    \A q \in UploadRequests :
        LET r == UploadOf(q) IN
        /\ Len(r.puts) <= 1
        /\ Len(r.puts) = 1 <=>
              (/\ ValidatesToActive(q[2])
               /\ SizeAccepted(q[3].content)
               /\ TypeAccepted(q[1], q[3].content))
        /\ ~ValidatesToActive(q[2]) => r.status = 401
        /\ (ValidatesToActive(q[2]) /\ ~SizeAccepted(q[3].content))
              => (r.status = 400 /\ r.detail \in {"File too small", "File too large"})
        /\ (ValidatesToActive(q[2]) /\ SizeAccepted(q[3].content)
                /\ ~TypeAccepted(q[1], q[3].content))
              => (r.status = 400 /\ r.detail = "Invalid file type")

\* an upload has been stored, a session that validates is at hand, and so is
\* a token that validates to nobody
C23_Witness ==
    /\ DOMAIN s3 # {}
    /\ \E t \in Tokens : ValidatesToActive(t)
    /\ \E t \in Tokens : ~ValidatesToActive(t)

\* the ContentType a request stored, if it put anything
ContentTypeOf(r) == {r.puts[i].ContentType : i \in 1..Len(r.puts)}

\* C24: for two upload requests with identical bytes and the same valid
\* session, the accept/reject decision and the stored ContentType are the same
\* whatever filename or content type the client declares: the decision depends
\* only on the size and on whether the sniffed type is in the allow-list.
C24_DeclaredTypeIgnored ==
    \A f \in Profiles, t \in Tokens, c \in Contents, x \in S3Results, i \in Uuids :
        ValidatesToActive(t) =>
            /\ \A n1, n2 \in Filenames, d1, d2 \in ContentTypes :
                  LET r1 == upload_audio(DB, f, t, [filename |-> n1, content_type |-> d1,
                                                    content |-> c], x, i, now)
                      r2 == upload_audio(DB, f, t, [filename |-> n2, content_type |-> d2,
                                                    content |-> c], x, i, now)
                  IN  /\ r1.status = r2.status
                      /\ r1.detail = r2.detail
                      /\ ContentTypeOf(r1) = ContentTypeOf(r2)
            /\ \A n \in Filenames, d \in ContentTypes :
                  LET r == upload_audio(DB, f, t, [filename |-> n, content_type |-> d,
                                                   content |-> c], "ok", i, now)
                  IN  /\ r.status = 200 <=> (SizeAccepted(c) /\ TypeAccepted(f, c))
                      /\ ContentTypeOf(r) \subseteq {from_buffer(c)}

\* WAV bytes sent under an .mp3 name have been stored as audio/x-wav
C24_Witness ==
    \E k \in DOMAIN s3 :
        /\ s3[k].Metadata.original_filename.ext = ".mp3"
        /\ s3[k].Body.magic = "RIFF/WAVE"
        /\ s3[k].ContentType = "audio/x-wav"

\* C25: upload_audio rejects content with length < 1024 bytes or length >
\* 50*1024*1024 bytes as a validation error (400), and never rejects on size a
\* length in the closed range [1024, 50*1024*1024].
C25_SizeBounds ==
    \A q \in UploadRequests :
        ValidatesToActive(q[2]) =>
            LET r == UploadOf(q)
                n == q[3].content.size
            IN  /\ n < 1024 => (r.status = 400 /\ r.detail = "File too small")
                /\ n > 50 * 1024 * 1024 => (r.status = 400 /\ r.detail = "File too large")
                /\ (n >= 1024 /\ n <= 50 * 1024 * 1024)
                      => r.detail \notin {"File too small", "File too large"}

\* a file of exactly 1024 bytes has been stored
C25_Witness ==
    \E k \in DOMAIN s3 : s3[k].Body.size = 1024

\* C26: a failure of the object-store put during upload is reported as an
\* upstream error (500), distinct from the validation error (400) of a bad
\* size or type and from the authorization error (401), and the put is not
\* retried inside the handler.
C26_UpstreamErrorDistinct ==
    \A q \in UploadRequests :
        LET r == UploadOf(q)
            reached == /\ ValidatesToActive(q[2])
                       /\ SizeAccepted(q[3].content)
                       /\ TypeAccepted(q[1], q[3].content)
        IN  /\ (reached /\ q[4] # "ok") => (r.status = 500 /\ Len(r.puts) = 1 /\ Stored(r) = s3)
            /\ r.status = 500 => (reached /\ q[4] # "ok")
            /\ ~ValidatesToActive(q[2]) => r.status = 401
            /\ (ValidatesToActive(q[2]) /\ ~(SizeAccepted(q[3].content)
                                              /\ TypeAccepted(q[1], q[3].content)))
                  => r.status = 400

\* a session that validates is at hand at a later instant and the bucket is
\* empty: an upload reaches the put and nothing is stored if the put fails
C26_Witness ==
    /\ now > 0
    /\ DOMAIN s3 = {}
    /\ \E t \in Tokens : ValidatesToActive(t)

\* passwords to hash and verify: those of the requests, and two of 73 bytes
\* that differ in the last byte only
VaultPasswords ==
    Passwords \cup {"correct-horse-battery-staple-correct-horse-battery-staple-correct-horse-1",
                    "correct-horse-battery-staple-correct-horse-battery-staple-correct-horse-2"}

\* C27: for all passwords p and p2, verify_password(p, hash_password(p)) is
\* true and verify_password(p2, hash_password(p)) is false whenever p2 differs
\* from p.
C27_HashVerify ==
    \A p \in VaultPasswords, p2 \in VaultPasswords,
       x \in Salts \cup {users[u].password_hash.salt : u \in DOMAIN users} :
        verify_password(p2, hash_password(p, x)) <=> (p2 = p)

\* the users that are active admins
ActiveAdmins(U) == {u \in DOMAIN U : U[u].is_active /\ U[u].is_admin}

\* C28: under interleaved admin requests, where another request may commit
\* between a request's get_admin_user check and its own commit, the set of
\* active admins never becomes empty once it is non-empty: two admins
\* demoting, deactivating or deleting each other cannot both succeed.
C28_AdminSurvivesRace ==
    [][ActiveAdmins(users) # {} => ActiveAdmins(users') # {}]_vars

\* C29: when admin requests execute one at a time, if at least one active
\* admin exists before an update_user, delete_user or revoke_session request,
\* at least one active admin exists after it.
C29_AdminRemains ==
    ActiveAdmins(users) # {} =>
        \A t \in Cookies :
            /\ \A u \in 1..MaxUsers, r \in UpdateUserRequest :
                  ActiveAdmins(update_user(DB, t, u, r, now).db.users) # {}
            /\ \A u \in 1..MaxUsers :
                  ActiveAdmins(delete_user(DB, t, u, now).db.users) # {}
            /\ \A x \in 1..MaxSessions :
                  ActiveAdmins(revoke_session(DB, t, x, now).db.users) # {}

\* the only active admin holds a session with which a request to delete, and
\* a request to deactivate and demote, another user succeeds
C29_Witness ==
    /\ Cardinality(ActiveAdmins(users)) = 1
    /\ \E t \in Tokens, u \in DOMAIN users :
          /\ delete_user(DB, t, u, now).status = 200
          /\ update_user(DB, t, u, [is_active |-> {FALSE}, is_admin |-> {FALSE},
                                    full_name |-> {}], now).status = 200

\* the users that are admins in V and were not admins in U
Gained(U, V) == {u \in DOMAIN V : V[u].is_admin /\ (u \notin DOMAIN U \/ ~U[u].is_admin)}

\* is_active and is_admin of every user
Flags(U) == [u \in DOMAIN U |-> <<U[u].is_active, U[u].is_admin>>]

\* the request leaves every user's is_active and is_admin as they are
KeepsFlags(r) == Flags(r.db.users) = Flags(users)

\* the session token passes get_admin_user
PassesGate(session_token) == get_admin_user(users, sessions, session_token, now).user # NoId

\* the uploads of every content, under one declared filename and content type
NamedUploads ==
    {q \in UploadRequests : q[3].filename.ext = ".mp3" /\ q[3].content_type = "audio/wav"}

\* C30: is_admin becomes true only through create_user or update_user, in a
\* request that passed get_admin_user; register creates every account with
\* is_admin false and is_active true; login, logout, validate_session and
\* upload change no user's is_admin or is_active.
C30_AdminOnlyByAdmin ==
    /\ \A u \in Usernames, e \in Emails, p \in NewPasswords, f \in Opt(FullNames),
          s \in Salts, t \in Tokens :
          LET r == register(DB, u, e, p, f, s, t, now) IN
          /\ Flags(users) = [i \in DOMAIN users |-> Flags(r.db.users)[i]]
          /\ \A i \in DOMAIN r.db.users \ DOMAIN users :
                r.db.users[i].is_active /\ ~r.db.users[i].is_admin
    /\ \A u \in Usernames, p \in Passwords, t \in Tokens :
          KeepsFlags(login(DB, u, p, t, now))
    /\ \A t \in Cookies :
          /\ KeepsFlags(logout(DB, t))
          /\ KeepsFlags(get_current_user(DB, t, now))
          /\ KeepsFlags(verify_session(DB, t, now))
          /\ KeepsFlags(list_users(DB, t, now))
          /\ KeepsFlags(list_sessions(DB, t, now))
          /\ \A i \in 1..MaxUsers : Gained(users, delete_user(DB, t, i, now).db.users) = {}
          /\ \A x \in 1..MaxSessions : KeepsFlags(revoke_session(DB, t, x, now))
          /\ \A u \in Usernames, e \in Emails, p \in NewPasswords, f \in Opt(FullNames),
                a \in BOOLEAN, s \in Salts :
                LET r == create_user(DB, t, u, e, p, f, a, s, now) IN
                Gained(users, r.db.users) # {} => PassesGate(t) /\ a /\ r.status = 200
          /\ \A i \in 1..MaxUsers, q \in UpdateUserRequest :
                LET r == update_user(DB, t, i, q, now) IN
                Gained(users, r.db.users) # {} =>
                    PassesGate(t) /\ q.is_admin = {TRUE} /\ r.status = 200
    /\ \A q \in NamedUploads : KeepsFlags(UploadOf(q))

\* an admin has made a second user an admin, and a registration is accepted
C30_Witness ==
    /\ \E i \in DOMAIN users : i # 1 /\ users[i].is_admin
    /\ \E u \in Usernames, e \in Emails, t \in Tokens :
          register(DB, u, e, "pw123456", {}, "s1", t, now).status = 200

\* C31: register is all-or-nothing with respect to the store: in every
\* outcome, create_session failing included, either one new user and one
\* valid session for it were persisted, or neither was.
C31_RegisterAllOrNothing ==
    \A u \in Usernames, e \in Emails, p \in NewPasswords, f \in Opt(FullNames),
       s \in Salts, t \in Tokens :
       LET r == register(DB, u, e, p, f, s, t, now)
           new_users == DOMAIN r.db.users \ DOMAIN users
           new_sessions == DOMAIN r.db.sessions \ DOMAIN sessions
       IN  \/ new_users = {} /\ new_sessions = {}
           \/ \E i \in new_users, x \in new_sessions :
                 /\ new_users = {i}
                 /\ new_sessions = {x}
                 /\ r.db.sessions[x].user_id = i
                 /\ r.db.sessions[x].is_valid

\* the sessions before their expires_at that no logout or revocation has named
Outstanding == {s \in DOMAIN sessions : s \notin revoked /\ now < sessions[s].expires_at}

\* the update that sets is_active = true and nothing else
Reactivate == [is_active |-> {TRUE}, is_admin |-> {}, full_name |-> {}]

\* C32: if a user is deactivated and later reactivated before a session's
\* expires_at, with no logout or revocation of that session in between,
\* validate_session on that session's token returns the user again:
\* deactivation suspends the outstanding sessions and does not end them.
C32_ReactivationResumes ==
    \A s \in Outstanding :
        LET owner == sessions[s].user_id
            token == sessions[s].session_token
        IN  /\ users[owner].is_active =>
                  validate_session(users, sessions, token, now).user = owner
            /\ ~users[owner].is_active =>
                  \A t \in Cookies :
                      LET o == update_user(DB, t, owner, Reactivate, now) IN
                      o.status = 200 =>
                          validate_session(o.db.users, o.db.sessions, token, now).user = owner

\* a deactivated user, whose outstanding session validate_session has just
\* refused, is reactivated by an admin
C32_Witness ==
    \E s \in Outstanding, t \in Tokens :
        /\ ~users[sessions[s].user_id].is_active
        /\ validate_session(users, sessions, sessions[s].session_token, now).user = NoId
        /\ update_user(DB, t, sessions[s].user_id, Reactivate, now).status = 200

\* the columns of a session that are written once, by create_session
Written(session) ==
    <<session.session_token, session.user_id, session.expires_at, session.created_at>>

Live == {s \in DOMAIN sessions :
            validate_session(users, sessions, sessions[s].session_token, now).user # NoId}

\* C34: login creates a new session without changing any existing session,
\* so one user may hold several live sessions at once; logout with one token
\* sets is_valid = false on that token's session only and leaves every other
\* session, the same user's other sessions included, unchanged.
C34_LoginLogoutFrame ==
    /\ \A u \in Usernames, p \in Passwords, t \in Tokens :
          LET r == login(DB, u, p, t, now) IN
          /\ \A s \in DOMAIN sessions :
                s \in DOMAIN r.db.sessions /\ r.db.sessions[s] = sessions[s]
          /\ r.status = 200 =>
                \E x \in DOMAIN r.db.sessions :
                    /\ DOMAIN r.db.sessions = DOMAIN sessions \cup {x}
                    /\ x \notin DOMAIN sessions
                    /\ r.db.sessions[x].user_id = r.user
                    /\ r.db.sessions[x].is_valid
    /\ \A t \in Cookies :
          LET r == logout(DB, t) IN
          /\ DOMAIN r.db.sessions = DOMAIN sessions
          /\ \A s \in DOMAIN sessions :
                IF sessions[s].session_token = t
                THEN r.db.sessions[s] = [sessions[s] EXCEPT !.is_valid = FALSE]
                ELSE r.db.sessions[s] = sessions[s]

\* a user holds two live sessions, and a logout with the token of one is made
C34_Witness ==
    \E a \in Live, b \in Live :
        /\ a # b
        /\ sessions[a].user_id = sessions[b].user_id
        /\ logout(DB, sessions[a].session_token).db.sessions[b].is_valid
        /\ ~logout(DB, sessions[a].session_token).db.sessions[a].is_valid

\* the key begins with the string `prefix`
StartsWith(key, prefix) ==
    Len(key) >= Len(prefix) /\ SubSeq(key, 1, Len(prefix)) = prefix

\* namespace/<username>/ : the part of the bucket that holds a user's uploads
UserPrefix(profile, username) == KeyPrefix(profile) \o "/" \o username \o "/"

\* C35: the object key of every accepted upload has the form
\* namespace/<username of the session's user>/<timestamp>_<suffix><extension>,
\* and whatever usernames are stored and whatever filename is declared, no
\* user causes an object to be written under another user's
\* namespace/<username>/ prefix.
C35_KeyInOwnNamespace ==
    \A q \in UploadRequests :
        LET r == UploadOf(q) IN
        r.status = 200 =>
            LET owner == validate_session(users, sessions, q[2], now).user
                key == r.puts[1].Key
            IN  /\ key = UserPrefix(q[1], users[owner].username) \o strftime(now) \o "_"
                            \o q[5] \o FileExtension(q[3].filename)
                /\ \A other \in DOMAIN users \ {owner} :
                      ~StartsWith(key, UserPrefix(q[1], users[other].username))

====
